---------------------------- MODULE Spec2Model ----------------------------
(***************************************************************************)
(* Model of the sliding-window rate limiter of pico-api-go                 *)
(* (package middleware: RateLimiter, ClientRecord, RateLimit).             *)
(*                                                                         *)
(* Strings are sequences of one-character strings, so that parsing         *)
(* (net.ParseIP, net.SplitHostPort) is computed character by character.    *)
(* Time is an integer number of clock steps; TicksPerSec steps make one    *)
(* second, so that the truncation of a duration to whole seconds is        *)
(* visible.                                                                *)
(***************************************************************************)
EXTENDS Integers, Sequences, FiniteSets, TLC

VARIABLES
    cfg,        \* config.RateLimitConfig: [Enabled, RequestsPerMinute, WindowSize]
    now,        \* the clock read by time.Now()
    clients,    \* RateLimiter.clients: client key -> tracker reference
    heap,       \* tracker reference -> ClientRecord (its requests, a sequence of times)
    mapLock,    \* holder of RateLimiter.mutex (0: free)
    recLock,    \* tracker reference -> ClientRecord.mutex [w: writer or 0, r: readers]
    pc,         \* request task -> position in the handler
    loc,        \* request task -> locals of the handler (clientIP, client)
    resp,       \* the response most recently completed, with its key, its decision
                \* and the time it was written at
    rpc,        \* position of the cleanup goroutine
    rloc,       \* locals of cleanOldClients (cutoff, keys left to visit, current key)
    tickC,      \* cleanupTicker.C holds a tick (a channel with a buffer of one)
    stopped,    \* Stop was called: the ticker is stopped and stopChan closed
    started,    \* number of requests begun so far
    admitted,   \* history: client key -> times of the requests admitted for it
                \* that are still after now - WindowSize
    sent,       \* history: client key -> number of requests it has sent
                \* (sequential study)
    denied,     \* history: the client keys that were denied at least once
                \* (sequential study)
    ipIn,       \* identity resolver study: the request under study
    ipOut       \* identity resolver study: the key getClientIP returned

vars == <<cfg, now, clients, heap, mapLock, recLock, pc, loc, resp,
          rpc, rloc, tickC, stopped, started, admitted, sent, denied, ipIn, ipOut>>

-----------------------------------------------------------------------------
(* Strings *)

Digits == {"0", "1", "2", "3", "4", "5", "6", "7", "8", "9"}

HexLetters == {"a", "b", "c", "d", "e", "f", "A", "B", "C", "D", "E", "F"}

DigitVal(c) ==
    CASE c = "0" -> 0 [] c = "1" -> 1 [] c = "2" -> 2 [] c = "3" -> 3
      [] c = "4" -> 4 [] c = "5" -> 5 [] c = "6" -> 6 [] c = "7" -> 7
      [] c = "8" -> 8 [] c = "9" -> 9

DigitChar(n) ==
    CASE n = 0 -> "0" [] n = 1 -> "1" [] n = 2 -> "2" [] n = 3 -> "3"
      [] n = 4 -> "4" [] n = 5 -> "5" [] n = 6 -> "6" [] n = 7 -> "7"
      [] n = 8 -> "8" [] n = 9 -> "9"

RECURSIVE FormatNat(_)
FormatNat(n) ==
    IF n < 10 THEN <<DigitChar(n)>>
    ELSE Append(FormatNat(n \div 10), DigitChar(n % 10))

\* fmt.Sprintf("%d", n)
FormatInt(n) == IF n < 0 THEN <<"-">> \o FormatNat(-n) ELSE FormatNat(n)

\* s[from..] (1-based), the empty string when from is past the end
Drop(s, from) == IF from > Len(s) THEN << >> ELSE SubSeq(s, from, Len(s))

\* index of the first c in s, 0 when absent
IndexOf(s, c) ==
    IF \E i \in 1..Len(s) : s[i] = c
    THEN CHOOSE i \in 1..Len(s) : s[i] = c /\ \A j \in 1..(i - 1) : s[j] # c
    ELSE 0

\* index of the last c in s, 0 when absent
LastIndexOf(s, c) ==
    IF \E i \in 1..Len(s) : s[i] = c
    THEN CHOOSE i \in 1..Len(s) : s[i] = c /\ \A j \in (i + 1)..Len(s) : s[j] # c
    ELSE 0

Contains(s, c) == \E i \in 1..Len(s) : s[i] = c

-----------------------------------------------------------------------------
(* net.ParseIP (Go 1.25: netip.ParseAddr, a zone rejected) *)

\* parseIPv4Fields: the scan from character i on; val and digLen describe the
\* octet being read, pos counts the octets completed
RECURSIVE V4Scan(_, _, _, _, _)
V4Scan(s, i, val, digLen, pos) ==
    IF i > Len(s) THEN pos = 3
    ELSE IF s[i] \in Digits THEN
        IF digLen = 1 /\ val = 0 THEN FALSE
        ELSE IF val * 10 + DigitVal(s[i]) > 255 THEN FALSE
        ELSE V4Scan(s, i + 1, val * 10 + DigitVal(s[i]), digLen + 1, pos)
    ELSE IF s[i] = "." THEN
        IF i = 1 \/ i = Len(s) \/ s[i - 1] = "." THEN FALSE
        ELSE IF pos = 3 THEN FALSE
        ELSE V4Scan(s, i + 1, 0, 0, pos + 1)
    ELSE FALSE

ParseIPv4(s) == V4Scan(s, 1, 0, 0, 0)

IsHex(c) == c \in Digits \/ c \in HexLetters

\* the number of leading hex digits of s
RECURSIVE HexRun(_)
HexRun(s) == IF s = << >> \/ ~IsHex(s[1]) THEN 0 ELSE 1 + HexRun(Tail(s))

\* the end of parseIPv6: the whole string used, and the ellipsis present
\* exactly when fewer than 16 bytes were read
V6Final(s, i, ellipsis) ==
    /\ s = << >>
    /\ IF i < 16 THEN ellipsis >= 0 ELSE ellipsis < 0

\* the loop of parseIPv6: s is what is left to read, i the bytes read so far,
\* ellipsis the byte position of "::" (-1: none yet)
RECURSIVE V6Loop(_, _, _)
V6Loop(s, i, ellipsis) ==
    IF i >= 16 THEN V6Final(s, i, ellipsis)
    ELSE LET off == HexRun(s) IN
        IF off > 4 \/ off = 0 THEN FALSE
        ELSE IF off < Len(s) /\ s[off + 1] = "." THEN
            /\ ~(ellipsis < 0 /\ i # 12)
            /\ i + 4 <= 16
            /\ ParseIPv4(s)
            /\ V6Final(<< >>, i + 4, ellipsis)
        ELSE LET s2 == Drop(s, off + 1) IN
            IF s2 = << >> THEN V6Final(s2, i + 2, ellipsis)
            ELSE IF s2[1] # ":" \/ Len(s2) = 1 THEN FALSE
            ELSE LET s3 == Tail(s2) IN
                IF s3[1] = ":" THEN
                    IF ellipsis >= 0 THEN FALSE
                    ELSE IF Tail(s3) = << >> THEN V6Final(<< >>, i + 2, i + 2)
                    ELSE V6Loop(Tail(s3), i + 2, i + 2)
                ELSE V6Loop(s3, i + 2, ellipsis)

ParseIPv6(s) ==
    IF Contains(s, "%") THEN FALSE      \* a zone: net.ParseIP rejects it
    ELSE IF Len(s) >= 2 /\ s[1] = ":" /\ s[2] = ":" THEN
        IF Len(s) = 2 THEN TRUE ELSE V6Loop(Drop(s, 3), 0, 0)
    ELSE V6Loop(s, 0, -1)

\* the first of '.', ':' and '%' in s decides the family
RECURSIVE ParseFrom(_, _)
ParseFrom(s, i) ==
    IF i > Len(s) THEN FALSE
    ELSE IF s[i] = "." THEN ParseIPv4(s)
    ELSE IF s[i] = ":" THEN ParseIPv6(s)
    ELSE IF s[i] = "%" THEN FALSE
    ELSE ParseFrom(s, i + 1)

\* net.ParseIP(s) != nil
ParseIP(s) == ParseFrom(s, 1)

-----------------------------------------------------------------------------
(* net.SplitHostPort: [err, host] *)

SplitHostPort(hostport) ==
    LET i   == LastIndexOf(hostport, ":")
        end == IndexOf(hostport, "]")
        bad == [err |-> TRUE, host |-> << >>]
    IN  IF i = 0 THEN bad
        ELSE IF hostport[1] = "[" THEN
            IF end = 0 THEN bad
            ELSE IF end = Len(hostport) THEN bad
            ELSE IF end # i - 1 THEN bad
            ELSE IF Contains(Drop(hostport, 2), "[") THEN bad
            ELSE IF Contains(Drop(hostport, end + 1), "]") THEN bad
            ELSE [err |-> FALSE, host |-> SubSeq(hostport, 2, end - 1)]
        ELSE
            IF Contains(SubSeq(hostport, 1, i - 1), ":") THEN bad
            ELSE IF Contains(hostport, "[") THEN bad
            ELSE IF Contains(hostport, "]") THEN bad
            ELSE [err |-> FALSE, host |-> SubSeq(hostport, 1, i - 1)]

-----------------------------------------------------------------------------
(* RateLimiter.getClientIP; an absent header reads as the empty string *)

FallbackRemoteAddr(r) ==
    LET sp == SplitHostPort(r.remote)
    IN  IF sp.err THEN r.remote ELSE sp.host

CheckXRealIP(r) ==
    IF r.xri # << >> /\ ParseIP(r.xri) THEN r.xri ELSE FallbackRemoteAddr(r)

\* a resolver that asks X-Real-IP before X-Forwarded-For
RealIPFirst(r) ==
    IF r.xri # << >> /\ ParseIP(r.xri) THEN r.xri
    ELSE IF r.xff # << >> /\ ParseIP(r.xff) THEN r.xff
    ELSE FallbackRemoteAddr(r)

getClientIP(r) ==
    IF r.xff # << >> /\ ParseIP(r.xff) THEN r.xff ELSE CheckXRealIP(r)

-----------------------------------------------------------------------------
(* Bounds of the model *)

TicksPerSec == 2        \* clock steps per second

\* the limiter under concurrent requests
MaxTime == 3            \* the clock stops advancing here
MaxQuota == 1           \* RequestsPerMinute ranges over 0..MaxQuota
MaxWindow == 1          \* WindowSize ranges over 1..MaxWindow clock steps
MaxRequests == 2        \* requests begun in one behaviour

\* the limiter under requests served one after the other
SeqMaxTime == 6
SeqMaxQuota == 2
SeqMaxWindow == 2 * TicksPerSec     \* windows of up to two seconds
SeqMaxRequests == 4

\* the limiter with its ticker and Stop
LifeMaxTime == 3
LifeMaxRequests == 1

\* the limiter with locks handed to their waiters
FairMaxRequests == 2

\* the request goroutines that run at once: two, the least that can race
Tasks == {1, 2}

\* lock holders: a request task, or the cleanup goroutine of line 61; 0 is nobody
Reaper == 3

-----------------------------------------------------------------------------
(* Requests *)

Addr1 == <<"1", ".", "1", ".", "1", ".", "1">>
Addr2 == <<"2", ".", "2", ".", "2", ".", "2">>
Port80 == <<":", "8", "0">>
NoHeader == << >>

\* the requests the tasks serve: one client seen directly, one behind a proxy
\* that shares the first one's transport address
Requests ==
    { [xff |-> NoHeader, xri |-> NoHeader, remote |-> Addr1 \o Port80],
      [xff |-> Addr2,    xri |-> NoHeader, remote |-> Addr1 \o Port80] }

\* line 195: the client key of each request
ClientKey == [r \in Requests |-> getClientIP(r)]

Keys == { ClientKey[r] : r \in Requests }

NoRequest == [xff |-> NoHeader, xri |-> NoHeader, remote |-> << >>]

NoKey == << >>

-----------------------------------------------------------------------------
(* RateLimiter.isAllowed, the part under the tracker's lock *)

\* a maximum that is always its first argument
First(a, b) == a

Max(a, b) == IF a >= b THEN a ELSE b

\* a log from which nothing is ever evicted
KeepAll(requests, t, W) == requests

\* an eviction over two windows instead of one
EvictLate(requests, t, W) == SelectSeq(requests, LAMBDA x : x > t - 2 * W)

\* lines 153-159: keep the entries after windowStart = t - WindowSize
Evict(requests, t, W) == SelectSeq(requests, LAMBDA x : x > t - W)

\* a decision that reports, on allow, the quota left before the request
\* itself is counted
DecideStale(requests, t, Q, W) ==
    LET valid == Evict(requests, t, W) IN
    IF Len(valid) >= Q THEN
        IF Len(valid) > 0 THEN
            [requests |-> valid, allowed |-> FALSE,
             remaining |-> Q - Len(valid),
             resetTime |-> Max(0, valid[1] + W - t)]
        ELSE
            [requests |-> valid, allowed |-> FALSE,
             remaining |-> 0, resetTime |-> W]
    ELSE
        [requests |-> Append(valid, t), allowed |-> TRUE,
         remaining |-> Q - Len(valid), resetTime |-> 0]

\* a decision that records the denied requests in the log as well
DecideCounting(requests, t, Q, W) ==
    LET valid == Evict(requests, t, W) IN
    IF Len(valid) >= Q THEN
        IF Len(valid) > 0 THEN
            [requests |-> Append(valid, t), allowed |-> FALSE,
             remaining |-> Q - Len(valid),
             resetTime |-> Max(0, valid[1] + W - t)]
        ELSE
            [requests |-> Append(valid, t), allowed |-> FALSE,
             remaining |-> 0, resetTime |-> W]
    ELSE
        [requests |-> Append(valid, t), allowed |-> TRUE,
         remaining |-> Q - (Len(valid) + 1), resetTime |-> 0]

\* a decision that puts the admitted time at the head of the log
DecidePrepend(requests, t, Q, W) ==
    LET valid == Evict(requests, t, W) IN
    IF Len(valid) >= Q THEN
        IF Len(valid) > 0 THEN
            [requests |-> valid, allowed |-> FALSE,
             remaining |-> Q - Len(valid),
             resetTime |-> Max(0, valid[1] + W - t)]
        ELSE
            [requests |-> valid, allowed |-> FALSE,
             remaining |-> 0, resetTime |-> W]
    ELSE
        [requests |-> <<t>> \o valid, allowed |-> TRUE,
         remaining |-> Q - (Len(valid) + 1), resetTime |-> 0]

\* lines 149-179: the decision at time t, and the log it leaves
Decide(requests, t, Q, W) ==
    LET valid == Evict(requests, t, W) IN
    IF Len(valid) >= Q THEN
        IF Len(valid) > 0 THEN
            [requests |-> valid, allowed |-> FALSE,
             remaining |-> Q - Len(valid),
             resetTime |-> Max(0, valid[1] + W - t)]
        ELSE
            [requests |-> valid, allowed |-> FALSE,
             remaining |-> 0, resetTime |-> W]
    ELSE
        [requests |-> Append(valid, t), allowed |-> TRUE,
         remaining |-> Q - (Len(valid) + 1), resetTime |-> 0]

\* the three values isAllowed returns
Returned(d) == [allowed |-> d.allowed, remaining |-> d.remaining, resetTime |-> d.resetTime]

NoDecision == [allowed |-> FALSE, remaining |-> 0, resetTime |-> 0]

\* a lookup that gives every key the tracker created first
LookupShared(cl, hp, key, t) ==
    IF Len(hp) > 0
    THEN [clients |-> [k \in DOMAIN cl \cup {key} |-> 1], heap |-> hp, client |-> 1]
    ELSE [clients |-> [k \in {key} |-> 1],
          heap    |-> <<[requests |-> << >>]>>,
          client  |-> 1]

\* lines 136-143: the tracker of key, created when the map has none
\* (lastCleanup, set at line 140 from the clock t, is never read again and is
\* not kept in the state)
LookupOrCreate(cl, hp, key, t) ==
    IF key \in DOMAIN cl THEN [clients |-> cl, heap |-> hp, client |-> cl[key]]
    ELSE [clients |-> [k \in DOMAIN cl \cup {key} |->
                          IF k = key THEN Len(hp) + 1 ELSE cl[k]],
          heap    |-> Append(hp, [requests |-> << >>]),
          client  |-> Len(hp) + 1]

-----------------------------------------------------------------------------
(* RateLimit: the response of the middleware *)

HLimit == "X-RateLimit-Limit"
HRemaining == "X-RateLimit-Remaining"
HReset == "X-RateLimit-Reset"
HRetryAfter == "Retry-After"
HContentType == "Content-Type"

RateLimitMessage == "Rate limit exceeded. Too many requests."

NoHeaders == << >>

NoBody == [status |-> "", error |-> ""]

\* nothing written yet
NoResponse ==
    [done |-> FALSE, clientIP |-> << >>, d |-> NoDecision, at |-> 0,
     status |-> 0, headers |-> NoHeaders, body |-> NoBody, forwarded |-> 0]

\* quota headers whose remaining is always the whole quota
QuotaHeadersFull(d, Q) ==
    (HLimit :> FormatInt(Q)) @@ (HRemaining :> FormatInt(Q))

\* lines 199-200
QuotaHeaders(d, Q) ==
    (HLimit :> FormatInt(Q)) @@ (HRemaining :> FormatInt(d.remaining))

\* lines 203-204: t is the clock read at line 203
DeniedHeaders(d, t) ==
    (HReset :> FormatInt((t + d.resetTime) \div TicksPerSec))
    @@ (HRetryAfter :> FormatInt(d.resetTime \div TicksPerSec))

\* writeRateLimitError, lines 22-31
ErrorHeaders == (HContentType :> "application/json")

ErrorBody(message) == [status |-> "error", error |-> message]

\* a middleware that calls the next stage whatever the decision
RespondForwarding(ip, d, t, Q) ==
    [done |-> TRUE, clientIP |-> ip, d |-> d, at |-> t,
     status    |-> IF d.allowed THEN 0 ELSE 429,
     headers   |-> IF d.allowed THEN QuotaHeaders(d, Q)
                   ELSE QuotaHeaders(d, Q) @@ DeniedHeaders(d, t) @@ ErrorHeaders,
     body      |-> IF d.allowed THEN NoBody ELSE ErrorBody(RateLimitMessage),
     forwarded |-> 1]

\* lines 196-210: the response to the request of client key ip, decided d
Respond(ip, d, t, Q) ==
    IF ~d.allowed
    THEN [done |-> TRUE, clientIP |-> ip, d |-> d, at |-> t,
          status    |-> 429,
          headers   |-> QuotaHeaders(d, Q) @@ DeniedHeaders(d, t) @@ ErrorHeaders,
          body      |-> ErrorBody(RateLimitMessage),
          forwarded |-> 0]
    ELSE [done |-> TRUE, clientIP |-> ip, d |-> d, at |-> t,
          status    |-> 0,
          headers   |-> QuotaHeaders(d, Q),
          body      |-> NoBody,
          forwarded |-> 1]

\* a disabled middleware that limits all the same
Throttle == Respond(NoKey, NoDecision, 0, 0)

\* line 187: the disabled middleware is the next handler itself; the next
\* stage runs once and writes its own response
PassThrough ==
    [done |-> TRUE, clientIP |-> << >>, d |-> NoDecision, at |-> 0,
     status |-> 0, headers |-> NoHeaders, body |-> NoBody, forwarded |-> 1]

-----------------------------------------------------------------------------
(* RateLimiter.cleanOldClients, the test made under the tracker's read lock *)

\* a cutoff of one window instead of two
CutoffOneWindow(t, W) == t - W

\* line 92
Cutoff(t, W) == t - W * 2

\* a cleanup that deletes only the trackers whose log is empty
OnlyEmpty(requests, cutoff) == Len(requests) = 0

\* lines 96-97
ShouldDelete(requests, cutoff) ==
    \/ Len(requests) = 0
    \/ (Len(requests) > 0 /\ requests[Len(requests)] < cutoff)

RemoveKey(cl, key) == [k \in DOMAIN cl \ {key} |-> cl[k]]

-----------------------------------------------------------------------------
(* Initial states: RateLimit(cfg) has returned the middleware *)

NoLocals == [clientIP |-> NoKey, client |-> 0]

NoCleanLocals == [cutoff |-> 0, left |-> {}, cur |-> NoKey]

Configs ==
    [Enabled : BOOLEAN, RequestsPerMinute : 0..MaxQuota, WindowSize : 1..MaxWindow]

\* NewRateLimiter, lines 51-65, runs only when the limiter is enabled
\* (lines 184-191): then the map is empty and the cleanup goroutine waits
LimiterInit(c) ==
    /\ cfg = c
    /\ now = 0
    /\ clients = << >>
    /\ heap = << >>
    /\ mapLock = 0
    /\ recLock = << >>
    /\ pc = [t \in Tasks |-> "idle"]
    /\ loc = [t \in Tasks |-> NoLocals]
    /\ resp = NoResponse
    /\ rpc = IF c.Enabled THEN "select" ELSE "none"
    /\ rloc = NoCleanLocals
    /\ tickC = FALSE
    /\ stopped = FALSE
    /\ started = 0
    /\ admitted = [k \in Keys |-> << >>]
    /\ sent = [k \in Keys |-> 0]
    /\ denied = {}

NotResolved == [done |-> FALSE, key |-> NoKey]

InitWith(c) ==
    /\ LimiterInit(c)
    /\ ipIn = NoRequest
    /\ ipOut = NotResolved

Init == \E c \in Configs : InitWith(c)

reaperVars == <<rpc, rloc, tickC, stopped>>
studyVars == <<ipIn, ipOut>>
taskVars == <<pc, loc, resp, started, admitted, sent, denied>>

-----------------------------------------------------------------------------
(* The clock *)

\* the admitted times no older than WindowSize at time t
Recent(times, t, W) == SelectSeq(times, LAMBDA x : x >= t - W)

TickTo(max) ==
    /\ now < max
    /\ now' = now + 1
    /\ admitted' = [k \in Keys |-> Recent(admitted[k], now + 1, cfg.WindowSize)]
    /\ UNCHANGED <<cfg, clients, heap, mapLock, recLock, pc, loc, resp,
                   started, sent, denied>>
    /\ UNCHANGED reaperVars /\ UNCHANGED studyVars

Tick == TickTo(MaxTime)

-----------------------------------------------------------------------------
(* The handler of RateLimit, one step per lock operation *)

\* the lowest task that serves no request: tasks are interchangeable
FreeTask(t) == pc[t] = "idle" /\ \A u \in Tasks : u < t => pc[u] # "idle"

\* a request arrives while the limiter is disabled: lines 184-188
ArriveDisabledUpTo(t, r, max) ==
    /\ ~cfg.Enabled
    /\ FreeTask(t)
    /\ started < max
    /\ started' = started + 1
    /\ resp' = PassThrough
    /\ UNCHANGED <<cfg, now, clients, heap, mapLock, recLock, pc, loc,
                   admitted, sent, denied>>
    /\ UNCHANGED reaperVars /\ UNCHANGED studyVars

ArriveDisabled(t, r) == ArriveDisabledUpTo(t, r, MaxRequests)

\* a request arrives: line 195
ArriveUpTo(t, r, max) ==
    /\ cfg.Enabled
    /\ FreeTask(t)
    /\ started < max
    /\ started' = started + 1
    /\ loc' = [loc EXCEPT ![t] = [clientIP |-> ClientKey[r], client |-> 0]]
    /\ pc' = [pc EXCEPT ![t] = "lockMap"]
    /\ UNCHANGED <<cfg, now, clients, heap, mapLock, recLock, resp, admitted,
                   sent, denied>>
    /\ UNCHANGED reaperVars /\ UNCHANGED studyVars

Arrive(t, r) == ArriveUpTo(t, r, MaxRequests)

\* line 135
LockMap(t) ==
    /\ pc[t] = "lockMap"
    /\ mapLock = 0
    /\ mapLock' = t
    /\ pc' = [pc EXCEPT ![t] = "lookup"]
    /\ UNCHANGED <<cfg, now, clients, heap, recLock, loc, resp, started,
                   admitted, sent, denied>>
    /\ UNCHANGED reaperVars /\ UNCHANGED studyVars

\* the locks of the records: one more when a record was created
LocksFor(hp, locks) ==
    IF Len(hp) > Len(locks) THEN Append(locks, [w |-> 0, r |-> {}]) ELSE locks

\* lines 136-144
Lookup(t) ==
    /\ pc[t] = "lookup"
    /\ LET got == LookupOrCreate(clients, heap, loc[t].clientIP, now) IN
        /\ clients' = got.clients
        /\ heap' = got.heap
        /\ recLock' = LocksFor(got.heap, recLock)
        /\ loc' = [loc EXCEPT ![t].client = got.client]
    /\ mapLock' = 0
    /\ pc' = [pc EXCEPT ![t] = "lockRec"]
    /\ UNCHANGED <<cfg, now, resp, started, admitted, sent, denied>>
    /\ UNCHANGED reaperVars /\ UNCHANGED studyVars

\* a request that goes on to its log without locking the tracker
SkipLockRec(t) ==
    /\ pc[t] = "lockRec"
    /\ pc' = [pc EXCEPT ![t] = "decide"]
    /\ UNCHANGED <<cfg, now, clients, heap, mapLock, recLock, loc, resp, started,
                   admitted, sent, denied>>
    /\ UNCHANGED reaperVars /\ UNCHANGED studyVars

\* line 146
LockRec(t) ==
    /\ pc[t] = "lockRec"
    /\ recLock[loc[t].client].w = 0
    /\ recLock[loc[t].client].r = {}
    /\ recLock' = [recLock EXCEPT ![loc[t].client].w = t]
    /\ pc' = [pc EXCEPT ![t] = "decide"]
    /\ UNCHANGED <<cfg, now, clients, heap, mapLock, loc, resp, started,
                   admitted, sent, denied>>
    /\ UNCHANGED reaperVars /\ UNCHANGED studyVars

\* the history of admissions after a decision for key ip at time t
Admit(adm, ip, d, t) ==
    IF d.allowed THEN [adm EXCEPT ![ip] = Append(@, t)] ELSE adm

\* a decision made with a clock value read before the tracker was locked
DecideClockBefore(t) ==
    /\ pc[t] = "decide"
    /\ \E at \in 0..now :
        LET c  == loc[t].client
            ip == loc[t].clientIP
            d  == Decide(heap[c].requests, at, cfg.RequestsPerMinute, cfg.WindowSize)
        IN
         /\ heap' = [heap EXCEPT ![c].requests = d.requests]
         /\ recLock' = [recLock EXCEPT ![c].w = 0]
         /\ resp' = Respond(ip, Returned(d), at, cfg.RequestsPerMinute)
         /\ admitted' = Admit(admitted, ip, d, at)
    /\ pc' = [pc EXCEPT ![t] = "idle"]
    /\ loc' = [loc EXCEPT ![t] = NoLocals]
    /\ UNCHANGED <<cfg, now, clients, mapLock, started, sent, denied>>
    /\ UNCHANGED reaperVars /\ UNCHANGED studyVars

\* a decision that returns without releasing the lock of the tracker
DecideHolding(t) ==
    /\ pc[t] = "decide"
    /\ LET c  == loc[t].client
           ip == loc[t].clientIP
           d  == Decide(heap[c].requests, now, cfg.RequestsPerMinute, cfg.WindowSize)
       IN
        /\ heap' = [heap EXCEPT ![c].requests = d.requests]
        /\ resp' = Respond(ip, Returned(d), now, cfg.RequestsPerMinute)
        /\ admitted' = Admit(admitted, ip, d, now)
    /\ pc' = [pc EXCEPT ![t] = "idle"]
    /\ loc' = [loc EXCEPT ![t] = NoLocals]
    /\ UNCHANGED <<cfg, now, clients, mapLock, recLock, started, sent, denied>>
    /\ UNCHANGED reaperVars /\ UNCHANGED studyVars

\* lines 149-179 with the deferred unlock of line 147, then lines 198-210:
\* what follows the unlock touches nothing shared, and the handler returns.
\* The clock of line 203 is read as that of line 149.
DecideRespond(t) ==
    /\ pc[t] = "decide"
    /\ LET c  == loc[t].client
           ip == loc[t].clientIP
           d  == Decide(heap[c].requests, now, cfg.RequestsPerMinute, cfg.WindowSize)
       IN
        /\ heap' = [heap EXCEPT ![c].requests = d.requests]
        /\ recLock' = [recLock EXCEPT ![c].w = 0]
        /\ resp' = Respond(ip, Returned(d), now, cfg.RequestsPerMinute)
        /\ admitted' = Admit(admitted, ip, d, now)
    /\ pc' = [pc EXCEPT ![t] = "idle"]
    /\ loc' = [loc EXCEPT ![t] = NoLocals]
    /\ UNCHANGED <<cfg, now, clients, mapLock, started, sent, denied>>
    /\ UNCHANGED reaperVars /\ UNCHANGED studyVars

-----------------------------------------------------------------------------
(* The cleanup goroutine: cleanup loop and cleanOldClients *)

\* lines 78-80: the ticker delivers a tick and the select takes it
ReceiveTick ==
    /\ rpc = "select"
    /\ rpc' = "lockMap"
    /\ UNCHANGED <<cfg, now, clients, heap, mapLock, recLock, rloc, tickC, stopped>>
    /\ UNCHANGED taskVars /\ UNCHANGED studyVars

\* lines 89-94: the map locked, the cutoff read, the range begun
CleanLock ==
    /\ rpc = "lockMap"
    /\ mapLock = 0
    /\ mapLock' = Reaper
    /\ rloc' = [cutoff |-> Cutoff(now, cfg.WindowSize),
                left   |-> DOMAIN clients,
                cur    |-> NoKey]
    /\ rpc' = "range"
    /\ UNCHANGED <<cfg, now, clients, heap, recLock, tickC, stopped>>
    /\ UNCHANGED taskVars /\ UNCHANGED studyVars

\* line 95: the next record of the range (in any order), read-locked
CleanRLock(k) ==
    /\ rpc = "range"
    /\ k \in rloc.left
    /\ recLock[clients[k]].w = 0
    /\ recLock' = [recLock EXCEPT ![clients[k]].r = @ \cup {Reaper}]
    /\ rloc' = [rloc EXCEPT !.cur = k]
    /\ rpc' = "check"
    /\ UNCHANGED <<cfg, now, clients, heap, mapLock, tickC, stopped>>
    /\ UNCHANGED taskVars /\ UNCHANGED studyVars

\* lines 100-102
DeleteIf(cond, cl, k) == IF cond THEN RemoveKey(cl, k) ELSE cl

\* lines 96-102
CleanCheck ==
    /\ rpc = "check"
    /\ LET k == rloc.cur
           c == clients[k]
       IN
        /\ recLock' = [recLock EXCEPT ![c].r = @ \ {Reaper}]
        /\ clients' = DeleteIf(ShouldDelete(heap[c].requests, rloc.cutoff), clients, k)
        /\ rloc' = [rloc EXCEPT !.left = @ \ {k}, !.cur = NoKey]
    /\ rpc' = "range"
    /\ UNCHANGED <<cfg, now, heap, mapLock, tickC, stopped>>
    /\ UNCHANGED taskVars /\ UNCHANGED studyVars

\* a pass that returns with the map still locked
CleanReturn ==
    /\ rpc = "range"
    /\ rloc.left = {}
    /\ rloc' = NoCleanLocals
    /\ rpc' = "select"
    /\ UNCHANGED <<cfg, now, clients, heap, mapLock, recLock, tickC, stopped>>
    /\ UNCHANGED taskVars /\ UNCHANGED studyVars

\* the range is over; the deferred unlock of line 90
CleanUnlock ==
    /\ rpc = "range"
    /\ rloc.left = {}
    /\ mapLock' = 0
    /\ rloc' = NoCleanLocals
    /\ rpc' = "select"
    /\ UNCHANGED <<cfg, now, clients, heap, recLock, tickC, stopped>>
    /\ UNCHANGED taskVars /\ UNCHANGED studyVars

-----------------------------------------------------------------------------
(* The limiter under concurrent requests and cleanup passes *)

Next ==
    \/ Tick
    \/ \E t \in Tasks, r \in Requests : ArriveDisabled(t, r)
    \/ \E t \in Tasks, r \in Requests : Arrive(t, r)
    \/ \E t \in Tasks : LockMap(t)
    \/ \E t \in Tasks : Lookup(t)
    \/ \E t \in Tasks : LockRec(t)
    \/ \E t \in Tasks : DecideRespond(t)
    \/ ReceiveTick
    \/ CleanLock
    \/ \E k \in Keys : CleanRLock(k)
    \/ CleanCheck
    \/ CleanUnlock

Spec == Init /\ [][Next]_vars

\* the same limiter with a quota of more than one request and a window of
\* more than one tick, so that a log holds entries of different times
OrderConfigs ==
    [Enabled : BOOLEAN, RequestsPerMinute : {MaxQuota + 1},
     WindowSize : {MaxWindow + 1}]

OrderInit == \E c \in OrderConfigs : InitWith(c)

SpecOrder == OrderInit /\ [][Next]_vars

-----------------------------------------------------------------------------
(* The limiter with its ticker and Stop: NewRateLimiter has returned an     *)
(* enabled limiter, requests and cleanup passes interleave, and Stop is     *)
(* called at most once                                                      *)

LifeConfigs == { c \in Configs : c.Enabled }

LifeInit == \E c \in LifeConfigs : InitWith(c)

LifeTick == TickTo(LifeMaxTime)

LifeArrive(t, r) == ArriveUpTo(t, r, LifeMaxRequests)

\* line 60: the ticker puts a tick in its channel; a tick that finds the
\* channel full is dropped, and a stopped ticker sends none
TickerFire ==
    /\ cfg.Enabled
    /\ ~stopped
    /\ ~tickC
    /\ tickC' = TRUE
    /\ UNCHANGED <<cfg, now, clients, heap, mapLock, recLock, rpc, rloc, stopped>>
    /\ UNCHANGED taskVars /\ UNCHANGED studyVars

\* lines 78-80: the select receives the tick
SelectTick ==
    /\ rpc = "select"
    /\ tickC
    /\ tickC' = FALSE
    /\ rpc' = "lockMap"
    /\ UNCHANGED <<cfg, now, clients, heap, mapLock, recLock, rloc, stopped>>
    /\ UNCHANGED taskVars /\ UNCHANGED studyVars

\* a loop that goes on waiting after stopChan was closed
KeepWaiting ==
    /\ rpc = "select"
    /\ stopped
    /\ UNCHANGED vars

\* lines 81-82: the select finds stopChan closed and the loop returns
SelectStop ==
    /\ rpc = "select"
    /\ stopped
    /\ rpc' = "done"
    /\ UNCHANGED <<cfg, now, clients, heap, mapLock, recLock, rloc, tickC, stopped>>
    /\ UNCHANGED taskVars /\ UNCHANGED studyVars

\* Stop, lines 68-73: the ticker is stopped and stopChan closed. A tick
\* already in the channel stays there or is discarded, as the runtime's
\* timer channels have it
Stop ==
    /\ cfg.Enabled
    /\ ~stopped
    /\ stopped' = TRUE
    /\ tickC' \in {tickC, FALSE}
    /\ UNCHANGED <<cfg, now, clients, heap, mapLock, recLock, rpc, rloc>>
    /\ UNCHANGED taskVars /\ UNCHANGED studyVars

\* the clock stands still: no step of the loop or of Stop reads it
LifeNext ==
    \/ \E t \in Tasks, r \in Requests : LifeArrive(t, r)
    \/ \E t \in Tasks : LockMap(t)
    \/ \E t \in Tasks : Lookup(t)
    \/ \E t \in Tasks : LockRec(t)
    \/ \E t \in Tasks : DecideRespond(t)
    \/ TickerFire
    \/ SelectTick
    \/ SelectStop
    \/ Stop
    \/ CleanLock
    \/ \E k \in Keys : CleanRLock(k)
    \/ CleanCheck
    \/ CleanUnlock

\* the steps of the request task t after its arrival
TaskNext(t) == LockMap(t) \/ Lookup(t) \/ LockRec(t) \/ DecideRespond(t)

\* the steps of the cleanup goroutine
ReaperNext ==
    \/ SelectTick
    \/ SelectStop
    \/ CleanLock
    \/ \E k \in Keys : CleanRLock(k)
    \/ CleanCheck
    \/ CleanUnlock

\* the goroutines are scheduled fairly: a request that can take its next
\* step takes it, and so does the cleanup goroutine. Nothing obliges a
\* request to arrive, the ticker to fire or Stop to be called.
LifeFairness ==
    /\ \A t \in Tasks : WF_vars(TaskNext(t))
    /\ WF_vars(ReaperNext)

SpecLife == LifeInit /\ [][LifeNext]_vars /\ LifeFairness

-----------------------------------------------------------------------------
(* The limiter whose ticker goes on firing and whose clock goes on: Stop is *)
(* never called                                                             *)

\* the steps of the cleanup goroutine, a tick being received as soon as the
\* ticker has sent it
RunReaperNext ==
    \/ ReceiveTick
    \/ CleanLock
    \/ \E k \in Keys : CleanRLock(k)
    \/ CleanCheck
    \/ CleanUnlock

RunNext ==
    \/ LifeTick
    \/ \E t \in Tasks, r \in Requests : LifeArrive(t, r)
    \/ \E t \in Tasks : TaskNext(t)
    \/ RunReaperNext

\* as LifeFairness, and the clock advances and the ticker fires again and
\* again
RunFairness ==
    /\ WF_vars(LifeTick)
    /\ \A t \in Tasks : WF_vars(TaskNext(t))
    /\ WF_vars(RunReaperNext)

SpecRun == LifeInit /\ [][RunNext]_vars /\ RunFairness

-----------------------------------------------------------------------------
(* The running limiter with locks that are handed to their waiters: a       *)
(* goroutine that waits for a sync.Mutex or sync.RWMutex gets it in the end *)
(* although others take it again and again (the starvation mode of the      *)
(* runtime's mutex)                                                         *)

\* the clock stands still: no lock operation reads it
FairArrive(t, r) == ArriveUpTo(t, r, FairMaxRequests)

FairNext ==
    \/ \E t \in Tasks, r \in Requests : FairArrive(t, r)
    \/ \E t \in Tasks : TaskNext(t)
    \/ RunReaperNext

FairLockFairness ==
    /\ \A t \in Tasks : SF_vars(TaskNext(t))
    /\ SF_vars(RunReaperNext)

SpecFair == LifeInit /\ [][FairNext]_vars /\ FairLockFairness

-----------------------------------------------------------------------------
(* The limiter under requests served one after the other: each handler and *)
(* each cleanup pass runs from its first line to its last without another  *)
(* task in between                                                         *)

SeqConfigs ==
    [Enabled : BOOLEAN, RequestsPerMinute : 0..SeqMaxQuota, WindowSize : 1..SeqMaxWindow]

SeqInit == \E c \in SeqConfigs : InitWith(c)

SeqTick == TickTo(SeqMaxTime)

SeqArriveDisabled(r) == ArriveDisabledUpTo(1, r, SeqMaxRequests)

\* lines 194-211, with isAllowed, lines 134-180
SeqHandle(r) ==
    /\ cfg.Enabled
    /\ started < SeqMaxRequests
    /\ started' = started + 1
    /\ LET ip  == ClientKey[r]
           got == LookupOrCreate(clients, heap, ip, now)
           d   == Decide(got.heap[got.client].requests, now,
                         cfg.RequestsPerMinute, cfg.WindowSize)
           out == Respond(ip, Returned(d), now, cfg.RequestsPerMinute)
       IN
        /\ clients' = got.clients
        /\ heap' = [got.heap EXCEPT ![got.client].requests = d.requests]
        /\ recLock' = LocksFor(got.heap, recLock)
        /\ resp' = out
        /\ admitted' = Admit(admitted, ip, d, now)
        /\ sent' = [sent EXCEPT ![ip] = @ + 1]
        /\ denied' = IF d.allowed THEN denied ELSE denied \cup {ip}
    /\ UNCHANGED <<cfg, now, mapLock, pc, loc>>
    /\ UNCHANGED reaperVars /\ UNCHANGED studyVars

\* cleanOldClients, lines 88-104, as one pass at time t over the map cl
CleanOld(cl, hp, t, W) ==
    [k \in {x \in DOMAIN cl : ~ShouldDelete(hp[cl[x]].requests, Cutoff(t, W))} |-> cl[k]]

SeqClean ==
    /\ cfg.Enabled
    /\ clients' = CleanOld(clients, heap, now, cfg.WindowSize)
    /\ UNCHANGED <<cfg, now, heap, mapLock, recLock>>
    /\ UNCHANGED taskVars /\ UNCHANGED reaperVars /\ UNCHANGED studyVars

SeqNext ==
    \/ SeqTick
    \/ \E r \in Requests : SeqArriveDisabled(r)
    \/ \E r \in Requests : SeqHandle(r)
    \/ SeqClean

SpecSeq == SeqInit /\ [][SeqNext]_vars

-----------------------------------------------------------------------------
(* The identity resolver alone: getClientIP on one request *)

Comma == <<",">>
Space == <<" ">>
Loopback6 == <<":", ":", "1">>

\* X-Forwarded-For: absent, one address, lists of addresses, and values that
\* are no address
XFFValues ==
    { NoHeader,
      Addr1,
      Addr1 \o Comma \o Space \o Addr2,
      Addr1 \o Comma \o Addr2,
      Loopback6,
      <<"x">>,
      <<"1", ".", "1", ".", "1">>,
      <<"2", "5", "6", ".", "1", ".", "1", ".", "1">>,
      <<"0", "1", ".", "1", ".", "1", ".", "1">> }

\* X-Real-IP
XRIValues ==
    { NoHeader,
      Addr2,
      Loopback6,
      <<"y">>,
      Addr2 \o <<".", "2">> }

\* http.Request.RemoteAddr
RemoteAddrs ==
    { Addr1 \o Port80,
      Addr1,
      <<"[">> \o Loopback6 \o <<"]">> \o Port80,
      <<"[">> \o Loopback6 \o <<"]">>,
      Loopback6,
      Port80,
      << >> }

IPInit ==
    /\ LimiterInit([Enabled |-> FALSE, RequestsPerMinute |-> 0, WindowSize |-> 1])
    /\ ipIn \in [xff : XFFValues, xri : XRIValues, remote : RemoteAddrs]
    /\ ipOut = NotResolved

\* line 195 on the request under study
Resolve ==
    /\ ~ipOut.done
    /\ ipOut' = [done |-> TRUE, key |-> getClientIP(ipIn)]
    /\ UNCHANGED <<cfg, now, clients, heap, mapLock, recLock, ipIn>>
    /\ UNCHANGED taskVars /\ UNCHANGED reaperVars

SpecIP == IPInit /\ [][Resolve]_vars

-----------------------------------------------------------------------------
(* Claims *)

\* the admitted times inside the trailing window (t - W, t]
InWindow(times, t, W) == SelectSeq(times, LAMBDA x : x > t - W)

\* C1: for every client key, the number of its requests admitted with a time
\* inside the trailing window never exceeds the quota, whatever the
\* interleaving of requests and cleanup passes.
C1_QuotaNeverExceeded ==
    \A k \in Keys :
        Len(InWindow(admitted[k], now, cfg.WindowSize)) <= cfg.RequestsPerMinute

\* the number a header value spells in decimal digits
RECURSIVE Atoi(_)
Atoi(s) ==
    IF s = << >> THEN 0
    ELSE 10 * Atoi(SubSeq(s, 1, Len(s) - 1)) + DigitVal(s[Len(s)])

\* the decimal digits of a whole number, without sign or leading zero
Decimal(n) ==
    CHOOSE s \in UNION {[1..l -> Digits] : l \in 1..2} :
        /\ Atoi(s) = n
        /\ (Len(s) > 1 => s[1] # "0")

\* C2: with a quota Q >= 1 and a window of at least two seconds, while the
\* clock is within the first second and requests are served one after the
\* other, the k-th request of a client key is allowed with remaining Q - k
\* for k <= Q, and the (Q+1)-th is denied with remaining 0 and a Retry-After
\* greater than 0.
C2_BurstThenDenied ==
    (/\ cfg.Enabled
     /\ resp.done
     /\ cfg.RequestsPerMinute >= 1
     /\ cfg.WindowSize >= 2 * TicksPerSec
     /\ now < TicksPerSec)
    => LET k == sent[resp.clientIP]
           Q == cfg.RequestsPerMinute
       IN  /\ k <= Q => (resp.d.allowed /\ resp.d.remaining = Q - k)
           /\ k = Q + 1 => /\ ~resp.d.allowed
                           /\ resp.d.remaining = 0
                           /\ Atoi(resp.headers[HRetryAfter]) > 0

\* the (Q+1)-th request of a key, sent within the first second, was denied
C2_Witness ==
    /\ cfg.Enabled
    /\ resp.done
    /\ cfg.RequestsPerMinute = 2
    /\ cfg.WindowSize >= 2 * TicksPerSec
    /\ now < TicksPerSec
    /\ sent[resp.clientIP] = 3
    /\ ~resp.d.allowed

\* the tracker the map holds for key k: whether there is one, and its log
Tracker(k) ==
    IF k \in DOMAIN clients THEN <<TRUE, heap[clients[k]].requests>>
    ELSE <<FALSE, << >> >>

\* a request was served from its first line to its last in this step
Handled == cfg.Enabled /\ started' = started + 1

\* C3: serving a request of client key a leaves the tracker and the admission
\* history of every other key b as they were, and the decision a receives is
\* the one its own admissions inside the window determine, whatever the other
\* keys have sent.
C3_Isolation ==
    [][Handled =>
        LET a == resp'.clientIP IN
        /\ \A b \in Keys \ {a} :
              /\ Tracker(b)' = Tracker(b)
              /\ admitted'[b] = admitted[b]
        /\ resp'.d = Returned(Decide(admitted[a], now,
                                     cfg.RequestsPerMinute, cfg.WindowSize))
    ]_vars

\* a key gets the whole quota on its first request although another key has
\* exhausted its own
C3_Witness ==
    /\ cfg.Enabled
    /\ resp.done
    /\ cfg.RequestsPerMinute >= 1
    /\ sent[resp.clientIP] = 1
    /\ resp.d.allowed
    /\ resp.d.remaining = cfg.RequestsPerMinute - 1
    /\ \E a \in denied : a # resp.clientIP /\ Len(admitted[a]) = cfg.RequestsPerMinute

\* C4: while the limiter is disabled there is no tracker, no cleanup
\* goroutine, and every request has been passed to the next stage once, with
\* no header and no status written by the middleware.
C4_DisabledPassesThrough ==
    ~cfg.Enabled =>
        /\ clients = << >>
        /\ heap = << >>
        /\ rpc = "none"
        /\ started > 0 =>
              /\ resp.done
              /\ resp.forwarded = 1
              /\ DOMAIN resp.headers = {}
              /\ resp.status = 0

\* a disabled limiter has passed on every request of the behaviour
C4_Witness ==
    /\ ~cfg.Enabled
    /\ started = SeqMaxRequests
    /\ resp.forwarded = 1

\* C5: every response of the enabled limiter carries X-RateLimit-Limit equal
\* to the quota and X-RateLimit-Remaining equal to the remaining of the
\* decision; X-RateLimit-Reset and Retry-After are there exactly when the
\* request was denied.
C5_Headers ==
    (cfg.Enabled /\ resp.done) =>
        /\ HLimit \in DOMAIN resp.headers
        /\ resp.headers[HLimit] = Decimal(cfg.RequestsPerMinute)
        /\ HRemaining \in DOMAIN resp.headers
        /\ resp.headers[HRemaining] = Decimal(resp.d.remaining)
        /\ (HReset \in DOMAIN resp.headers) <=> ~resp.d.allowed
        /\ (HRetryAfter \in DOMAIN resp.headers) <=> ~resp.d.allowed

\* an allowed response that left part of the quota
C5_Witness ==
    /\ cfg.Enabled
    /\ resp.done
    /\ resp.d.allowed
    /\ resp.d.remaining < cfg.RequestsPerMinute
    /\ HReset \notin DOMAIN resp.headers

\* C6: the next stage was called once for an allowed request and not at all
\* for a denied one; a denied request is answered 429 with the body
\* {status: error, error: Rate limit exceeded. Too many requests.}.
C6_ShortCircuit ==
    (cfg.Enabled /\ resp.done) =>
        /\ resp.d.allowed => resp.forwarded = 1
        /\ ~resp.d.allowed =>
              /\ resp.forwarded = 0
              /\ resp.status = 429
              /\ resp.body = [status |-> "error",
                              error  |-> "Rate limit exceeded. Too many requests."]

\* a request of a key that had used its quota was denied
C6_Witness ==
    /\ cfg.Enabled
    /\ resp.done
    /\ cfg.RequestsPerMinute >= 1
    /\ ~resp.d.allowed
    /\ resp.status = 429

\* C7: with a quota of at least one, a client key that was denied before and
\* whose most recent admitted request is more than WindowSize old (none of
\* its admissions is still recent) is allowed on its next request.
C7_WindowSlides ==
    [][(/\ Handled
        /\ cfg.RequestsPerMinute >= 1
        /\ resp'.clientIP \in denied
        /\ admitted[resp'.clientIP] = << >>)
       => resp'.d.allowed]_vars

\* a key that was denied is allowed again, all its earlier admissions being
\* older than the window
C7_Witness ==
    /\ cfg.Enabled
    /\ resp.done
    /\ cfg.RequestsPerMinute >= 1
    /\ resp.clientIP \in denied
    /\ resp.d.allowed
    /\ now > cfg.WindowSize
    /\ admitted[resp.clientIP] = <<now>>

\* the remote address with its port stripped, the raw address when stripping
\* fails
PortStripped(remote) ==
    IF SplitHostPort(remote).err THEN remote ELSE SplitHostPort(remote).host

\* C8: the key is the X-Forwarded-For value when it parses as an IP address,
\* else the X-Real-IP value when it parses as one, else the remote address
\* with its port stripped (the raw remote address when stripping fails).
C8_Priority ==
    ipOut.done =>
        ipOut.key = IF ParseIP(ipIn.xff) THEN ipIn.xff
                    ELSE IF ParseIP(ipIn.xri) THEN ipIn.xri
                    ELSE PortStripped(ipIn.remote)

\* a malformed X-Forwarded-For was skipped and a valid X-Real-IP won over
\* the remote address
C8_Witness ==
    /\ ipOut.done
    /\ ipIn.xff # NoHeader
    /\ ~ParseIP(ipIn.xff)
    /\ ParseIP(ipIn.xri)
    /\ ipOut.key = ipIn.xri
    /\ ipOut.key # PortStripped(ipIn.remote)

\* the text before the first comma of a list
FirstToken(s) == SubSeq(s, 1, IndexOf(s, ",") - 1)

\* C9: when X-Forwarded-For is a comma-separated list whose first token
\* parses as an IP address, the key is that first token.
C9_FirstToken ==
    (/\ ipOut.done
     /\ Contains(ipIn.xff, ",")
     /\ ParseIP(FirstToken(ipIn.xff)))
    => ipOut.key = FirstToken(ipIn.xff)

\* C10: the resolver returns a non-empty key for every combination of
\* X-Forwarded-For, X-Real-IP and remote address.
C10_NonEmptyKey == ipOut.done => ipOut.key # << >>

\* a cleanup pass ran from its first line to its last in this step
Cleaned == cfg.Enabled /\ started' = started /\ now' = now

\* the time of the most recent entry of a log that has one
LastOf(log) == log[Len(log)]

\* C11: after a cleanup pass at time now, every tracker whose most recent
\* entry is older than now - 2 * WindowSize is out of the map, and every
\* tracker whose most recent entry is no older than that is still in the map,
\* unchanged.
C11_CleanupPass ==
    [][Cleaned =>
        \A k \in DOMAIN clients :
            LET log == heap[clients[k]].requests IN
            log # << >> =>
                /\ LastOf(log) < now - 2 * cfg.WindowSize => k \notin DOMAIN clients'
                /\ LastOf(log) >= now - 2 * cfg.WindowSize =>
                      /\ k \in DOMAIN clients'
                      /\ clients'[k] = clients[k]
    ]_vars

\* with a quota of at least one no log in the map is empty, so a key that has
\* sent requests and has no tracker lost it to a cleanup pass for being
\* stale, while the other key, seen more recently, kept its tracker
C11_Witness ==
    /\ cfg.Enabled
    /\ cfg.RequestsPerMinute >= 1
    /\ \E k \in Keys, j \in Keys :
          /\ sent[k] > 0
          /\ k \notin DOMAIN clients
          /\ j \in DOMAIN clients
          /\ LastOf(heap[clients[j]].requests) >= now - 2 * cfg.WindowSize
          /\ LastOf(heap[clients[j]].requests) < now - cfg.WindowSize

\* C12: once Stop has been called on an enabled limiter, the cleanup
\* goroutine eventually returns from its loop, whether it was waiting in the
\* select or in the middle of a pass.
C12_StopTerminates == stopped ~> (rpc = "done")

\* Stop was called on a limiter that has served requests, and the loop has
\* returned
C12_Witness ==
    /\ cfg.Enabled
    /\ stopped
    /\ rpc = "done"
    /\ started > 0

\* C13: when the last response was a denial with Retry-After r and the next
\* request served is one of the same client key, sent r seconds after the
\* denial, that request is allowed (quota of at least one).
C13_RetryAfterSufficient ==
    [][(/\ Handled
        /\ cfg.RequestsPerMinute >= 1
        /\ resp.done
        /\ ~resp.d.allowed
        /\ resp'.clientIP = resp.clientIP
        /\ now = resp.at + Atoi(resp.headers[HRetryAfter]) * TicksPerSec)
       => resp'.d.allowed]_vars

\* C14: every decision, for every quota from 0 up, has a remaining between 0
\* and the quota and a reset time between 0 and WindowSize, and the
\* X-RateLimit-Remaining header is not negative.
C14_DecisionRanges ==
    (cfg.Enabled /\ resp.done) =>
        /\ resp.d.remaining >= 0
        /\ resp.d.remaining <= cfg.RequestsPerMinute
        /\ resp.d.resetTime >= 0
        /\ resp.d.resetTime <= cfg.WindowSize
        /\ resp.headers[HRemaining][1] # "-"

\* the third request of a key whose quota of two is used up is denied
C14_Witness ==
    /\ cfg.Enabled
    /\ resp.done
    /\ cfg.RequestsPerMinute = 2
    /\ sent[resp.clientIP] >= 3
    /\ ~resp.d.allowed
    /\ resp.d.remaining = 0
    /\ resp.d.resetTime > 0

\* no request is being served and none will arrive any more
Quiet == started = LifeMaxRequests /\ \A t \in Tasks : pc[t] = "idle"

\* the tracker of key k is empty, or its most recent entry becomes older than
\* two windows before the clock of the model stops
GoesStale(k) ==
    LET log == heap[clients[k]].requests IN
    log = << >> \/ LastOf(log) + 2 * cfg.WindowSize < LifeMaxTime

\* C15: while the ticker goes on firing and the clock advances, the tracker
\* of every client key that has stopped sending requests is eventually
\* removed from the map.
C15_EventualEviction ==
    \A k \in Keys :
        (Quiet /\ k \in DOMAIN clients /\ GoesStale(k)) ~> (k \notin DOMAIN clients)

\* the clients are quiet, the one tracker there was has an entry older than
\* two windows, and the map is empty
C15_Witness ==
    /\ Quiet
    /\ clients = << >>
    /\ Len(heap) = 1
    /\ heap[1].requests # << >>
    /\ LastOf(heap[1].requests) < now - 2 * cfg.WindowSize

\* C16: a denied decision has remaining 0 and a reset time of
\* max(0, oldest entry left in the log + WindowSize - now); when the log is
\* empty at the denial the reset time is WindowSize.
C16_DeniedDecision ==
    [][(Handled /\ ~resp'.d.allowed) =>
        LET left == heap'[clients'[resp'.clientIP]].requests
            over == left[1] + cfg.WindowSize - now
        IN  /\ resp'.d.remaining = 0
            /\ left # << >> =>
                  resp'.d.resetTime = (IF over > 0 THEN over ELSE 0)
            /\ left = << >> => resp'.d.resetTime = cfg.WindowSize
    ]_vars

\* a denial in the middle of the window: the oldest entry is neither new nor
\* about to expire
C16_Witness ==
    /\ cfg.Enabled
    /\ resp.done
    /\ cfg.RequestsPerMinute >= 1
    /\ ~resp.d.allowed
    /\ resp.d.resetTime > 1
    /\ resp.d.resetTime < cfg.WindowSize
    /\ resp.at = now

\* C17: a decision at time now keeps every log entry that is not strictly
\* older than windowStart = now - WindowSize; an entry whose time equals
\* windowStart stays in the log and counts against the quota.
C17_EvictStrictlyOlder ==
    [][(Handled /\ resp'.clientIP \in DOMAIN clients) =>
        LET k      == resp'.clientIP
            before == heap[clients[k]].requests
            after  == heap'[clients'[k]].requests
        IN  \A i \in 1..Len(before) :
                before[i] >= now - cfg.WindowSize =>
                    \E j \in 1..Len(after) : after[j] = before[i]
    ]_vars

\* C18: right after a decision at time now, allowed or denied, every time in
\* the log of the tracker it was made on is at or after now - WindowSize.
C18_LogWithinWindow ==
    [][Handled =>
        LET after == heap'[clients'[resp'.clientIP]].requests
        IN  \A j \in 1..Len(after) : after[j] >= now - cfg.WindowSize
    ]_vars

\* the second request of a key with a quota of two found the first one
\* expired: the log holds the second alone
C18_Witness ==
    /\ cfg.Enabled
    /\ resp.done
    /\ resp.d.allowed
    /\ cfg.RequestsPerMinute = 2
    /\ sent[resp.clientIP] = 2
    /\ resp.clientIP \in DOMAIN clients
    /\ heap[clients[resp.clientIP]].requests = <<resp.at>>
    /\ resp.at <= 2 * cfg.WindowSize

\* the request task or cleanup goroutine ids that hold the lock of a record
HoldersOf(l) == l.r \cup (IF l.w # 0 THEN {l.w} ELSE {})

\* C19: no task acquires the lock of a tracker while it holds the map lock:
\* whoever becomes a holder of a tracker's lock in a step does not hold the
\* map lock when it takes the step.
C19_NoFineUnderCoarse ==
    [][\A c \in 1..Len(recLock') :
          \A h \in HoldersOf(recLock'[c]) :
              (c > Len(recLock) \/ h \notin HoldersOf(recLock[c])) => mapLock # h
    ]_vars

\* h holds the lock of no tracker
HoldsNoTracker(h) == \A c \in 1..Len(recLock) : h \notin HoldersOf(recLock[c])

\* C20: a task that is about to acquire the map lock, a request at line 135
\* or the cleanup goroutine at line 89, holds the lock of no tracker.
C20_NoCoarseUnderFine ==
    /\ \A t \in Tasks : pc[t] = "lockMap" => HoldsNoTracker(t)
    /\ rpc = "lockMap" => HoldsNoTracker(Reaper)

\* a request waits for the map lock, which the cleanup goroutine holds
\* together with the read lock of a tracker, while another request is about
\* to lock its tracker
C20_Witness ==
    /\ mapLock = Reaper
    /\ \E c \in 1..Len(recLock) : Reaper \in recLock[c].r
    /\ \E t \in Tasks, u \in Tasks : pc[t] = "lockMap" /\ pc[u] = "lockRec"

\* the request task t waits for a lock that another task holds
TaskBlocked(t) ==
    \/ pc[t] = "lockMap" /\ mapLock # 0
    \/ pc[t] = "lockRec" /\ HoldersOf(recLock[loc[t].client]) # {}

\* the cleanup goroutine waits for a lock that a request holds
ReaperBlocked ==
    \/ rpc = "lockMap" /\ mapLock # 0
    \/ /\ rpc = "range"
       /\ rloc.left # {}
       /\ \A k \in rloc.left : recLock[clients[k]].w # 0

\* some task waits for a lock and no task can take a step
AllBlocked ==
    /\ (\E t \in Tasks : TaskBlocked(t)) \/ ReaperBlocked
    /\ \A t \in Tasks : pc[t] = "idle" \/ TaskBlocked(t)
    /\ rpc = "select" \/ ReaperBlocked

\* C21: in no reachable state is every task blocked on a lock, and with
\* fair scheduling every request that has arrived obtains its decision and
\* every cleanup pass that has begun completes.
C21_DeadlockFree ==
    /\ []~AllBlocked
    /\ \A t \in Tasks : (pc[t] # "idle") ~> (pc[t] = "idle")
    /\ (rpc # "select") ~> (rpc = "select")

\* a request waits for the lock of its tracker, which the cleanup goroutine
\* holds for reading together with the map lock, for which another request
\* waits
C21_Witness ==
    /\ mapLock = Reaper
    /\ \E t \in Tasks, u \in Tasks :
          /\ pc[t] = "lockRec"
          /\ Reaper \in recLock[loc[t].client].r
          /\ pc[u] = "lockMap"

\* C22: every request in flight that has looked its tracker up works on the
\* tracker the map holds for its client key.
C22_OneTrackerPerKey ==
    \A t \in Tasks :
        pc[t] \in {"lockRec", "decide"} =>
            /\ loc[t].clientIP \in DOMAIN clients
            /\ clients[loc[t].clientIP] = loc[t].client

\* every tracker ever created is in the map still: no cleanup pass has
\* evicted one
NoEviction == Len(heap) = Cardinality(DOMAIN clients)

\* a request obtains its decision in this step
Decided == \E t \in Tasks : pc[t] = "decide" /\ pc'[t] = "idle"

C24_ReapOnlyIdle ==
    [][(/\ Cleaned
        /\ resp.done
        /\ resp.at >= now - 2 * cfg.WindowSize
        /\ resp.clientIP \in DOMAIN clients)
       => resp.clientIP \in DOMAIN clients'
    ]_vars

\* C25: every admission of a key that is still inside the window is an entry of
\* the log of the tracker the map holds for that key; no step takes it away
\* before it has aged out.
C25_NoRefund ==
    \A k \in Keys :
        \A i \in 1..Len(admitted[k]) :
            admitted[k][i] > now - cfg.WindowSize =>
                /\ k \in DOMAIN clients
                /\ \E j \in 1..Len(heap[clients[k]].requests) :
                       heap[clients[k]].requests[j] = admitted[k][i]

\* C26: a request reads or writes the map (lines 136-142) only while it holds
\* the map lock, and reads or writes a log (lines 153-177) only while it holds
\* the write lock of that tracker with no reader inside; a cleanup pass ranges
\* over and deletes from the map (lines 94-101) only while it holds the map
\* lock, and reads a log (lines 96-97) only while it holds the read lock of
\* that tracker with no writer inside.
C26_LockCoverage ==
    /\ \A t \in Tasks :
        /\ pc[t] = "lookup" => mapLock = t
        /\ pc[t] = "decide" =>
              /\ recLock[loc[t].client].w = t
              /\ recLock[loc[t].client].r = {}
    /\ rpc \in {"range", "check"} => mapLock = Reaper
    /\ rpc = "check" =>
          /\ rloc.cur \in DOMAIN clients
          /\ Reaper \in recLock[clients[rloc.cur]].r
          /\ recLock[clients[rloc.cur]].w = 0

\* a request is inside the log of a tracker that a running cleanup pass has
\* still to read
C26_Witness ==
    /\ rpc = "range"
    /\ mapLock = Reaper
    /\ \E t \in Tasks :
        /\ pc[t] = "decide"
        /\ loc[t].clientIP \in rloc.left
        /\ loc[t].clientIP \in DOMAIN clients
        /\ clients[loc[t].clientIP] = loc[t].client

\* the log of key k, empty when the map has no tracker for k
LogOf(cl, hp, k) == IF k \in DOMAIN cl THEN hp[cl[k]].requests ELSE << >>

\* C27: a request that is denied leaves the in-window entries of its key's log
\* and the admission history as they were, so that a request of the key at any
\* later time gets the decision it would have got had the denied request not
\* been sent.
C27_DenyConsumesNothing ==
    [][(Handled /\ ~resp'.d.allowed) =>
        LET k      == resp'.clientIP
            W      == cfg.WindowSize
            Q      == cfg.RequestsPerMinute
            before == LogOf(clients, heap, k)
            after  == LogOf(clients', heap', k)
        IN  /\ k \in DOMAIN clients'
            /\ InWindow(after, now, W) = InWindow(before, now, W)
            /\ after = InWindow(before, now, W)
            /\ admitted' = admitted
            /\ \A t \in now..SeqMaxTime :
                   Returned(Decide(after, t, Q, W)) = Returned(Decide(before, t, Q, W))
    ]_vars

\* a key with a positive quota has been denied at least twice and its log
\* holds exactly its admissions inside the window
C27_Witness ==
    /\ cfg.Enabled
    /\ resp.done
    /\ ~resp.d.allowed
    /\ cfg.RequestsPerMinute >= 1
    /\ sent[resp.clientIP] >= Len(admitted[resp.clientIP]) + 2
    /\ resp.clientIP \in DOMAIN clients
    /\ heap[clients[resp.clientIP]].requests
           = InWindow(admitted[resp.clientIP], now, cfg.WindowSize)
    /\ heap[clients[resp.clientIP]].requests # << >>

\* the times of a log never go down from one entry to the next
NonDecreasing(log) == \A i \in 1..(Len(log) - 1) : log[i] <= log[i + 1]

\* C28: the log of every tracker, in the map or not, is in non-decreasing order
\* of time under every interleaving of requests and cleanup passes, so that
\* its first entry is its oldest.
C28_LogOrdered ==
    \A c \in 1..Len(heap) :
        /\ NonDecreasing(heap[c].requests)
        /\ \A i \in 1..Len(heap[c].requests) :
               heap[c].requests[1] <= heap[c].requests[i]

\* a log holds two admissions made at different times
C28_Witness ==
    \E c \in 1..Len(heap) :
        /\ Len(heap[c].requests) >= 2
        /\ heap[c].requests[1] < heap[c].requests[Len(heap[c].requests)]

\* C29: with the quota fixed, the log of every tracker, in the map or not,
\* never holds more entries than the quota, under every interleaving of
\* requests and cleanup passes.
C29_LogWithinQuota ==
    \A c \in 1..Len(heap) : Len(heap[c].requests) <= cfg.RequestsPerMinute

\* a tracker whose log is full has denied a request while a cleanup pass runs
C29_Witness ==
    /\ cfg.RequestsPerMinute >= 1
    /\ resp.done
    /\ ~resp.d.allowed
    /\ resp.clientIP \in DOMAIN clients
    /\ Len(heap[clients[resp.clientIP]].requests) = cfg.RequestsPerMinute
    /\ rpc # "select"

\* C30: once Stop has returned, the cleanup goroutine begins no pass: it does
\* not enter cleanOldClients (line 89), whether for a tick it received before
\* Stop or for one left in the ticker's channel.
C30_NoPassAfterStop ==
    [][stopped => ~(rpc = "lockMap" /\ rpc' = "range")]_vars

=============================================================================
